---------------------------- MODULE Spec2Model ----------------------------
(***************************************************************************)
(* Credential lifecycle of the gdrive MCP server.                          *)
(*                                                                         *)
(* The repository holds three revisions of the server's index.ts:          *)
(*   "index"    src/index.ts                 (the revision that is built)  *)
(*   "part_000" src/unnamed/part_000         (per-request token override)  *)
(*   "part_002" src/unnamed/part_002:266-803 (override + auth checks)      *)
(* The variable `variant` fixes, for a whole behaviour, which revision is  *)
(* running.  Every operator below is translated from the revision(s) it    *)
(* names; where the revisions differ the operator branches on `variant`.   *)
(*                                                                         *)
(* Library contract used (google-auth-library / googleapis, called from    *)
(* the source but not part of it):                                         *)
(*   - new OAuth2(id, secret) creates a client with empty credentials;     *)
(*   - client.setCredentials(c) replaces the credentials object by c;      *)
(*   - an API call reads the credentials of its auth client when the call  *)
(*     is issued; with an auth client that holds neither access nor        *)
(*     refresh token the call throws locally, and with no auth client at   *)
(*     all the call is sent to the remote API without credentials.         *)
(***************************************************************************)
EXTENDS Integers, Sequences, FiniteSets, TLC

VARIABLES
  variant,            \* which revision of index.ts is running
  env,                \* process.env: GOOGLE_CLIENT_ID / GOOGLE_CLIENT_SECRET set?
  pc,                 \* position of loadCredentialsAndRunServer
  googleAuthClient,   \* the global pointer: NULL or the id of the ambient client
  currentAuthToken,   \* the tracked current access token
  oauth,              \* heap of OAuth2 client objects, by object id
  file,               \* the token artifact on disk
  watch,              \* state of the fs.watch subscription
  pending,            \* change notifications delivered by the OS, not yet handled
  reqs,               \* the request slots: in-flight protocol requests
  installed,          \* history: the argument pair of the last update that went through
  lastRead,           \* history: how the last readAndUpdateTokenFromFile ended
  attempts,           \* history: the access tokens the last read passed to the update
  posts,              \* the ingestion endpoint: its requests being handled
  fileRead            \* readFileContent: the file being read and what is returned

vars == <<variant, env, pc, googleAuthClient, currentAuthToken, oauth, file,
          watch, pending, reqs, installed, lastRead, attempts, posts, fileRead>>

-----------------------------------------------------------------------------
(* Bounds of the model *)

\* number of request slots (requests that can be in flight together)
MaxReq == 2

\* notifications that can be queued before further writes coalesce
MaxPending == 1

\* requests the ingestion endpoint can be handling together
MaxPost == 2

-----------------------------------------------------------------------------
(* Values *)

\* `let googleAuthClient: OAuth2Client | null = null`
NULL == -1

\* object id of the client created by initializeGoogleAuthClient
GlobalId == 0

Variants == {"index", "part_000", "part_002"}

\* the handler slots of the ingestion endpoint
Posts == 1..MaxPost

\* an endpoint slot with no request in it
IdlePost == [pc |-> "idle", method |-> "none", url |-> "none", sent |-> <<>>,
             body |-> <<>>, status |-> 0]

\* no readFileContent call under way
IdleRead == [pc |-> "idle", mimeType |-> [has |-> FALSE, v |-> <<>>],
             out |-> [op |-> "none", mimeType |-> <<>>, encoding |-> "none"]]

\* An optional string: a string is a sequence of lexemes, <<>> the empty string.
None == [has |-> FALSE, v |-> <<>>]

Some(s) == [has |-> TRUE, v |-> s]

\* JavaScript truthiness of an optional string: undefined/null and "" are falsy
Truthy(o) == o.has /\ o.v # <<>>

\* the credentials object of a freshly constructed OAuth2 client: {}
EmptyCreds == [access_token |-> None, refresh_token |-> None]

\* a heap cell that holds no object
NoClient == [exists |-> FALSE, secret |-> FALSE, credentials |-> EmptyCreds]

Slots == 1..MaxReq

ObjIds == {GlobalId} \cup Slots

-----------------------------------------------------------------------------
(* The artifact's text.  A text is a sequence of lexemes: whitespace,      *)
(* JSON punctuation, quoted strings, and unquoted words.                   *)

WS == " "

QAccess == "\"access_token\""

QRefresh == "\"refresh_token\""

QFoo == "\"foo\""

\* the quoted-string lexemes and the string each denotes
Unquote ==
  [l \in {QAccess, QRefresh, QFoo, "\"a1\"", "\"r1\"", "\"a2\"", "\"bar\"", "\"\"",
          "\"<c3a9>\"", "\"<fffd><fffd>\""} |->
     CASE l = QAccess   -> <<"access_token">>
       [] l = QRefresh  -> <<"refresh_token">>
       [] l = QFoo      -> <<"foo">>
       [] l = "\"a1\""  -> <<"a1">>
       [] l = "\"r1\""  -> <<"r1">>
       [] l = "\"a2\""  -> <<"a2">>
       [] l = "\"bar\"" -> <<"bar">>
       [] l = "\"<c3a9>\"" -> <<"<c3a9>">>
       [] l = "\"<fffd><fffd>\"" -> <<"<fffd><fffd>">>
       [] OTHER         -> <<>>]

IsQuoted(l) == l \in DOMAIN Unquote

\* unquoted lexemes that are JSON values on their own
IsNumber(l) == l \in {"123"}

IsLiteral(l) == l \in {"true", "false", "null"}

\* String.prototype.trim
RECURSIVE TrimLeft(_)
TrimLeft(s) == IF s # <<>> /\ Head(s) = WS THEN TrimLeft(Tail(s)) ELSE s

RECURSIVE TrimRight(_)
TrimRight(s) ==
  IF s # <<>> /\ s[Len(s)] = WS THEN TrimRight(SubSeq(s, 1, Len(s) - 1)) ELSE s

\* trim as it would be if only leading whitespace were removed
Trim_LeftOnly(s) == TrimLeft(s)

\* trim as it would be if nothing were removed
Trim_Nothing(s) == s

Trim(s) == TrimRight(TrimLeft(s))

-----------------------------------------------------------------------------
(* JSON.parse, by recursive descent over the lexemes.  A parsed value      *)
(* keeps what the reader looks at: its kind, its text when it is a scalar, *)
(* and its access_token / refresh_token properties when it is an object.   *)

NoProps == [access_token |-> None, refresh_token |-> None]

JsonVal(kind, str, props) == [kind |-> kind, str |-> str, props |-> props]

ParseFail == [ok |-> FALSE, rest |-> <<>>, val |-> JsonVal("none", <<>>, NoProps)]

ParseOk(rest, val) == [ok |-> TRUE, rest |-> rest, val |-> val]

\* the JavaScript value of a member, as the optional string the reader passes on
AsProp(val) ==
  CASE val.kind = "string" -> Some(val.str)
    [] val.kind \in {"null", "false"} -> None
    [] OTHER -> Some(val.str)

\* SetProp as it would be if the first string member of any name were taken
\* for the access token
SetProp_AnyKey(props, key, val) ==
  CASE key = <<"refresh_token">> -> [props EXCEPT !.refresh_token = AsProp(val)]
    [] OTHER -> [props EXCEPT !.access_token = AsProp(val)]

SetProp(props, key, val) ==
  CASE key = <<"access_token">>  -> [props EXCEPT !.access_token = AsProp(val)]
    [] key = <<"refresh_token">> -> [props EXCEPT !.refresh_token = AsProp(val)]
    [] OTHER -> props

RECURSIVE ParseValue(_)
RECURSIVE ParseMembers(_, _)
RECURSIVE ParseElements(_)

ParseValue(s) ==
  IF s = <<>> THEN ParseFail
  ELSE LET h == Head(s) IN
    CASE IsQuoted(h)  -> ParseOk(Tail(s), JsonVal("string", Unquote[h], NoProps))
      [] IsNumber(h)  -> ParseOk(Tail(s), JsonVal("number", <<h>>, NoProps))
      [] IsLiteral(h) -> ParseOk(Tail(s), JsonVal(h, <<h>>, NoProps))
      [] h = "{" ->
           IF Len(s) >= 2 /\ s[2] = "}"
           THEN ParseOk(SubSeq(s, 3, Len(s)), JsonVal("object", <<"{}">>, NoProps))
           ELSE ParseMembers(Tail(s), NoProps)
      [] h = "[" ->
           IF Len(s) >= 2 /\ s[2] = "]"
           THEN ParseOk(SubSeq(s, 3, Len(s)), JsonVal("array", <<"[]">>, NoProps))
           ELSE ParseElements(Tail(s))
      [] OTHER -> ParseFail

ParseMembers(s, props) ==
  IF Len(s) < 3 \/ ~IsQuoted(s[1]) \/ s[2] # ":" THEN ParseFail
  ELSE LET r == ParseValue(SubSeq(s, 3, Len(s))) IN
    IF ~r.ok \/ r.rest = <<>> THEN ParseFail
    ELSE LET p2 == SetProp(props, Unquote[s[1]], r.val) IN
      CASE Head(r.rest) = "}" -> ParseOk(Tail(r.rest), JsonVal("object", <<"{}">>, p2))
        [] Head(r.rest) = "," -> ParseMembers(Tail(r.rest), p2)
        [] OTHER -> ParseFail

ParseElements(s) ==
  LET r == ParseValue(s) IN
    IF ~r.ok \/ r.rest = <<>> THEN ParseFail
    ELSE CASE Head(r.rest) = "]" -> ParseOk(Tail(r.rest), JsonVal("array", <<"[]">>, NoProps))
           [] Head(r.rest) = "," -> ParseElements(Tail(r.rest))
           [] OTHER -> ParseFail

\* whitespace between JSON tokens is insignificant
StripWS(s) == SelectSeq(s, LAMBDA l : l # WS)

\* JSON.parse(text): ok = FALSE stands for the SyntaxError it throws
JSONParse(text) ==
  LET r == ParseValue(StripWS(text)) IN
    IF r.ok /\ r.rest = <<>> THEN r ELSE ParseFail

-----------------------------------------------------------------------------
(* The credential store: googleAuthClient, currentAuthToken and the heap   *)
(* of client objects, passed to and returned by the operators below.       *)

Store(ptr, cur, heap) == [googleAuthClient |-> ptr, currentAuthToken |-> cur, oauth |-> heap]

\* new google.auth.OAuth2(clientId, clientSecret): credentials start empty
NewOAuth2(secret) == [exists |-> TRUE, secret |-> secret, credentials |-> EmptyCreds]

\* client.setCredentials(credentials): the credentials object is replaced
SetCredentials(heap, id, credentials) == [heap EXCEPT ![id].credentials = credentials]

\* initializeGoogleAuthClient as it would be if a missing GOOGLE_CLIENT_ID were
\* raised as an error instead of being warned about
InitializeGoogleAuthClient_Throws(v, e) ==
  IF ~e.clientId
  THEN [threw |-> TRUE, googleAuthClient |-> NULL, client |-> NoClient]
  ELSE [threw |-> FALSE, googleAuthClient |-> GlobalId,
        client |-> NewOAuth2(e.clientSecret)]

\* initializeGoogleAuthClient: threw tells whether it raised; otherwise the
\* new value of googleAuthClient and, when one is created, the client object
InitializeGoogleAuthClient(v, e) ==
  CASE ~e.clientId ->
         [threw |-> FALSE, googleAuthClient |-> NULL, client |-> NoClient]
    [] e.clientId /\ v = "index" ->
         IF ~e.clientSecret
         THEN [threw |-> FALSE, googleAuthClient |-> NULL, client |-> NoClient]
         ELSE [threw |-> FALSE, googleAuthClient |-> GlobalId, client |-> NewOAuth2(TRUE)]
    [] e.clientId /\ v = "part_000" ->
         [threw |-> FALSE, googleAuthClient |-> GlobalId, client |-> NewOAuth2(FALSE)]
    [] OTHER ->
         [threw |-> FALSE, googleAuthClient |-> GlobalId,
          client |-> NewOAuth2(e.clientSecret)]

\* the credentials object as it would be if the refresh token were left out
Credentials_AccessOnly(accessToken, refreshToken) ==
  [access_token |-> accessToken, refresh_token |-> None]

\* the credentials object updateTokensOnClient builds from its arguments
Credentials(accessToken, refreshToken) ==
  [access_token |-> accessToken,
   refresh_token |-> IF Truthy(refreshToken) THEN refreshToken ELSE None]

\* updateTokensOnClient as it would be if the new fields were merged into the
\* credentials already set instead of replacing them
UpdateTokensOnClient_Merge(st, accessToken, refreshToken) ==
  IF st.googleAuthClient = NULL
  THEN [threw |-> TRUE, st |-> st]
  ELSE [threw |-> FALSE,
        st |-> [st EXCEPT
                  !.currentAuthToken = accessToken,
                  !.oauth = SetCredentials(@, st.googleAuthClient,
                     [access_token |-> accessToken,
                      refresh_token |->
                        IF Truthy(refreshToken) THEN refreshToken
                        ELSE st.oauth[st.googleAuthClient].credentials.refresh_token])]]

\* updateTokensOnClient as it would be if the access token were tracked before
\* the test for an initialized client
UpdateTokensOnClient_TrackFirst(st, accessToken, refreshToken) ==
  IF st.googleAuthClient = NULL
  THEN [threw |-> TRUE, st |-> [st EXCEPT !.currentAuthToken = accessToken]]
  ELSE [threw |-> FALSE,
        st |-> [st EXCEPT
                  !.currentAuthToken = accessToken,
                  !.oauth = SetCredentials(@, st.googleAuthClient,
                                           Credentials(accessToken, refreshToken))]]

\* updateTokensOnClient as it would be if it replaced the ambient client by
\* a new object, constructed the other way, carrying the tokens
UpdateTokensOnClient_Recreate(st, accessToken, refreshToken) ==
  IF st.googleAuthClient = NULL
  THEN [threw |-> TRUE, st |-> st]
  ELSE [threw |-> FALSE,
        st |-> [st EXCEPT
                  !.currentAuthToken = accessToken,
                  !.oauth = SetCredentials(
                              [@ EXCEPT ![st.googleAuthClient] =
                                 NewOAuth2(~st.oauth[st.googleAuthClient].secret)],
                              st.googleAuthClient,
                              Credentials(accessToken, refreshToken))]]

\* updateTokensOnClient(accessToken, refreshToken?)
UpdateTokensOnClient(st, accessToken, refreshToken) ==
  IF st.googleAuthClient = NULL
  THEN [threw |-> TRUE, st |-> st]
  ELSE [threw |-> FALSE,
        st |-> [st EXCEPT
                  !.currentAuthToken = accessToken,
                  !.oauth = SetCredentials(@, st.googleAuthClient,
                                           Credentials(accessToken, refreshToken))]]

\* readAndUpdateTokenFromFile.  outcome names the path taken; applied is the
\* argument pair of the update that went through, if one did; attempts lists
\* the access-token argument of each updateTokensOnClient call made.
ReadAndUpdateTokenFromFile(st, f) ==
  IF ~f.exists
  THEN [st |-> st, outcome |-> "missing", applied |-> EmptyCreds, attempts |-> <<>>]
  ELSE IF ~f.readable
  \* fs.readFileSync throws and the outer catch logs it
  THEN [st |-> st, outcome |-> "error", applied |-> EmptyCreds, attempts |-> <<>>]
  ELSE LET fileContent == Trim(f.content) IN
    IF fileContent = <<>>
    THEN [st |-> st, outcome |-> "empty", applied |-> EmptyCreds, attempts |-> <<>>]
    ELSE
      LET tokenData == JSONParse(fileContent)
          \* JSON.parse threw, or reading a property of null threw
          parseThrew == ~tokenData.ok \/ tokenData.val.kind = "null"
          at == tokenData.val.props.access_token
          rt == tokenData.val.props.refresh_token
          hasAccess == ~parseThrew /\ Truthy(at)
          json == UpdateTokensOnClient(st, at, rt)
          \* the inner catch runs for any exception raised in the inner try
          innerThrew == parseThrew \/ (hasAccess /\ json.threw)
          stAtCatch == IF hasAccess THEN json.st ELSE st
          plain == UpdateTokensOnClient(stAtCatch, Some(fileContent), None)
          tried == (IF hasAccess THEN <<at>> ELSE <<>>) \o
                   (IF innerThrew THEN <<Some(fileContent)>> ELSE <<>>)
      IN
        CASE ~innerThrew /\ hasAccess ->
               [st |-> json.st, outcome |-> "json_applied",
                applied |-> Credentials(at, rt), attempts |-> tried]
          [] ~innerThrew /\ ~hasAccess ->
               [st |-> st, outcome |-> "json_no_access_token",
                applied |-> EmptyCreds, attempts |-> tried]
          [] innerThrew /\ ~plain.threw ->
               [st |-> plain.st, outcome |-> "plain_applied",
                applied |-> Credentials(Some(fileContent), None), attempts |-> tried]
          [] OTHER ->
               [st |-> plain.st, outcome |-> "error", applied |-> EmptyCreds,
                attempts |-> tried]

-----------------------------------------------------------------------------
(* Requests.  A slot holds one protocol request from the moment its        *)
(* handler starts until its result has been handed back.                   *)

Tools == {"gdrive_search", "gdrive_read_file"}

\* the handlers that go through readFileContent (metadata call, then body call)
Reads == {"read_resource", "gdrive_read_file"}

IdleReq ==
  [kind |-> "idle", token |-> None, pc |-> "idle", auth |-> NULL,
   calls |-> <<>>, result |-> "none", err |-> "none"]

\* createTemporaryClient as it would be if the token were set on the global
\* client instead of the client just constructed
CreateTemporaryClient_OnGlobal(v, e, heap, id, accessToken) ==
  IF ~e.clientId
  THEN [ok |-> FALSE, heap |-> heap]
  ELSE [ok |-> TRUE,
        heap |-> SetCredentials(
                   [heap EXCEPT ![id] =
                      NewOAuth2(IF v = "part_002" THEN e.clientSecret ELSE FALSE)],
                   IF heap[GlobalId].exists THEN GlobalId ELSE id,
                   [access_token |-> Some(accessToken), refresh_token |-> None])]

\* createTemporaryClient(accessToken), the new object stored in heap cell id.
\* ok = FALSE stands for the null it returns.
CreateTemporaryClient(v, e, heap, id, accessToken) ==
  IF ~e.clientId
  THEN [ok |-> FALSE, heap |-> heap]
  ELSE [ok |-> TRUE,
        heap |-> SetCredentials(
                   [heap EXCEPT ![id] =
                      NewOAuth2(IF v = "part_002" THEN e.clientSecret ELSE FALSE)],
                   id, [access_token |-> Some(accessToken), refresh_token |-> None])]

\* Does the tool handler of revision v act on the token argument?
\* src/index.ts reads only query / file_id; the other revisions test
\* `if (temporaryToken)`.
UsesToken(v, kind, tok) == v # "index" /\ kind \in Tools /\ Truthy(tok)

\* How a failure of handler `kind` reaches the caller: as a result with
\* isError = true, or as an exception raised to the protocol layer.
ErrorSurface(v, kind) ==
  CASE kind = "gdrive_read_file" -> "isError"
    [] kind = "gdrive_search" -> IF v = "part_000" THEN "thrown" ELSE "isError"
    [] OTHER -> "thrown"

\* part_002 only: the `!driveClient.context._options.auth` tests
AuthCheckFails(v, kind, auth) ==
  v = "part_002" /\ kind \in (Tools \cup {"read_resource"}) /\ auth = NULL

\* an API call as it would be if the drive client kept the credentials the
\* auth object had when it was created (none) instead of reading them when
\* the call is issued
IssueCall_Snapshot(heap, auth) ==
  IF auth = NULL
  THEN [sent |-> TRUE, call |-> [auth |-> "none", creds |-> EmptyCreds]]
  ELSE IF auth = GlobalId
       THEN [sent |-> FALSE, call |-> [auth |-> "client", creds |-> EmptyCreds]]
       ELSE [sent |-> TRUE, call |-> [auth |-> "client", creds |-> heap[auth].credentials]]

\* An API call through the auth object `auth` (NULL: no auth object).
IssueCall(heap, auth) ==
  IF auth = NULL
  THEN [sent |-> TRUE, call |-> [auth |-> "none", creds |-> EmptyCreds]]
  ELSE LET c == heap[auth].credentials IN
    IF ~Truthy(c.access_token) /\ ~Truthy(c.refresh_token)
    THEN [sent |-> FALSE, call |-> [auth |-> "client", creds |-> c]]
    ELSE [sent |-> TRUE, call |-> [auth |-> "client", creds |-> c]]

\* the handler returns: the slot keeps the result handed back and nothing else
Finish(req, result, err) == [IdleReq EXCEPT !.pc = "done", !.result = result, !.err = err]

\* The synchronous part of a handler, up to its first await: the request
\* record it leaves in slot r and the heap after it.
StartHandler(v, e, ptr, heap, r, kind, tok) ==
  LET tmp == CreateTemporaryClient(v, e, heap, r, tok.v)
      override == UsesToken(v, kind, tok)
      auth == IF override THEN r ELSE ptr
      heap1 == IF override /\ tmp.ok THEN tmp.heap ELSE heap
      base == [IdleReq EXCEPT !.kind = kind, !.token = tok, !.auth = auth]
      c == IssueCall(heap1, auth)
  IN
    CASE override /\ ~tmp.ok ->
           [req |-> Finish(base,
                           IF v = "part_000" THEN "thrown" ELSE "isError",
                           "identity_missing"),
            oauth |-> heap]
      [] ~(override /\ ~tmp.ok) /\ AuthCheckFails(v, kind, auth) ->
           [req |-> Finish(base, ErrorSurface(v, kind), "auth_not_configured"),
            oauth |-> heap1]
      [] ~(override /\ ~tmp.ok) /\ ~AuthCheckFails(v, kind, auth) /\ c.sent ->
           [req |-> [base EXCEPT !.pc = "await1", !.calls = <<c.call>>],
            oauth |-> heap1]
      [] OTHER ->
           [req |-> Finish(base, ErrorSurface(v, kind), "no_credential"),
            oauth |-> heap1]

\* the continuation as it would be if a rejected call were issued again
ResumeHandler_Retry(v, heap, req, outcome) ==
  LET c == IssueCall(heap, req.auth) IN
    CASE outcome = "rejected" /\ c.sent /\ Len(req.calls) < 3 ->
           [req EXCEPT !.calls = Append(@, c.call)]
      [] outcome = "rejected" /\ ~(c.sent /\ Len(req.calls) < 3) ->
           Finish(req, ErrorSurface(v, req.kind), "remote")
      [] outcome = "ok" /\ req.pc = "await1" /\ req.kind \in Reads /\ c.sent ->
           [req EXCEPT !.pc = "await2", !.calls = Append(@, c.call)]
      [] outcome = "ok" /\ req.pc = "await1" /\ req.kind \in Reads /\ ~c.sent ->
           Finish(req, ErrorSurface(v, req.kind), "no_credential")
      [] OTHER -> Finish(req, "ok", "none")

\* The continuation of a handler when the remote API answers its call.
ResumeHandler(v, heap, req, outcome) ==
  LET c == IssueCall(heap, req.auth) IN
    CASE outcome = "rejected" -> Finish(req, ErrorSurface(v, req.kind), "remote")
      [] outcome = "ok" /\ req.pc = "await1" /\ req.kind \in Reads /\ c.sent ->
           [req EXCEPT !.pc = "await2", !.calls = Append(@, c.call)]
      [] outcome = "ok" /\ req.pc = "await1" /\ req.kind \in Reads /\ ~c.sent ->
           Finish(req, ErrorSurface(v, req.kind), "no_credential")
      [] OTHER -> Finish(req, "ok", "none")

-----------------------------------------------------------------------------
(* Inputs *)

\* texts the artifact is written with
JsonAccessRefresh ==
  <<"{", QAccess, ":", "\"a1\"", ",", QRefresh, ":", "\"r1\"", "}">>

JsonNoAccess == <<"{", QFoo, ":", "\"bar\"", "}">>

PlainText == <<WS, "x1", WS>>

ArtifactContents == {<<>>, JsonAccessRefresh, JsonNoAccess, PlainText}

NoFile == [exists |-> FALSE, content |-> <<>>, readable |-> TRUE]

\* process.env as the server is started: GOOGLE_CLIENT_ID and
\* GOOGLE_CLIENT_SECRET both set, only the id set, or neither (no revision
\* reads the secret when the id is unset), each with MCP_GDRIVE_OAUTH_TOKEN
\* set or unset
Environments ==
  {[clientId |-> id, clientSecret |-> sec, bootstrapToken |-> b] :
     id \in BOOLEAN, sec \in BOOLEAN, b \in BOOLEAN} \
  {[clientId |-> FALSE, clientSecret |-> TRUE, bootstrapToken |-> b] : b \in BOOLEAN}

\* the value of MCP_GDRIVE_OAUTH_TOKEN when it is set
BootstrapToken == <<"b0">>

\* the optional `token` argument of a tool call: the request in slot r comes
\* without a token, with the empty string, or with a token of its own, so
\* that requests in flight together carry different tokens
TokenArgs(r) == {None, Some(<<>>), Some(<<"t", r>>)}

\* what fs.watch hands to its callback
WatchEvents == [eventType : {"change", "rename"}, filename : BOOLEAN]

\* what the remote API answers to a call
Outcomes == {"ok", "rejected"}

-----------------------------------------------------------------------------
(* The state machine *)

Init ==
  /\ variant \in Variants
  /\ env \in Environments
  /\ pc = "start"
  /\ googleAuthClient = NULL
  /\ currentAuthToken = None
  /\ oauth = [i \in ObjIds |-> NoClient]
  /\ file \in {NoFile} \cup {[exists |-> TRUE, content |-> c, readable |-> TRUE] : c \in ArtifactContents}
  /\ watch = "none"
  /\ pending = 0
  /\ reqs = [r \in Slots |-> IdleReq]
  /\ installed = EmptyCreds
  /\ lastRead = "none"
  /\ attempts = <<>>
  /\ posts = [p \in Posts |-> IdlePost]
  /\ fileRead = IdleRead

\* loadCredentialsAndRunServer, first statement: initializeGoogleAuthClient()
Initialize ==
  /\ pc = "start"
  /\ \E r \in {InitializeGoogleAuthClient(variant, env)} :
       IF r.threw
       THEN /\ pc' = "exited"
            /\ UNCHANGED <<googleAuthClient, oauth>>
       ELSE /\ pc' = "initial_read"
            /\ googleAuthClient' = r.googleAuthClient
            /\ oauth' = [oauth EXCEPT ![GlobalId] = r.client]
  /\ UNCHANGED <<posts, fileRead, variant, env, currentAuthToken, file, watch, pending, reqs,
                 installed, lastRead, attempts>>

\* the read as it would be if the content applied were the content of some
\* earlier write, read asynchronously, instead of the artifact's content now
ApplyRead_Stale ==
  \E c \in ArtifactContents :
    \E res \in {ReadAndUpdateTokenFromFile(
                   Store(googleAuthClient, currentAuthToken, oauth),
                   [exists |-> TRUE, content |-> c, readable |-> TRUE])} :
       /\ googleAuthClient' = res.st.googleAuthClient
       /\ currentAuthToken' = res.st.currentAuthToken
       /\ oauth' = res.st.oauth
       /\ installed' = IF res.outcome \in {"json_applied", "plain_applied"}
                       THEN res.applied ELSE installed
       /\ lastRead' = res.outcome
       /\ attempts' = res.attempts

\* the read as it would be if a read that installs nothing cleared the
\* credential instead of leaving it
ApplyRead_ClearOnFailure ==
  \E res \in {ReadAndUpdateTokenFromFile(
                 Store(googleAuthClient, currentAuthToken, oauth), file)} :
     /\ googleAuthClient' = res.st.googleAuthClient
     /\ lastRead' = res.outcome
     /\ attempts' = res.attempts
     /\ IF res.outcome \in {"json_applied", "plain_applied"}
        THEN /\ currentAuthToken' = res.st.currentAuthToken
             /\ oauth' = res.st.oauth
             /\ installed' = res.applied
        ELSE /\ currentAuthToken' = None
             /\ oauth' = IF googleAuthClient = NULL THEN oauth
                         ELSE SetCredentials(oauth, googleAuthClient, EmptyCreds)
             /\ installed' = EmptyCreds

\* the store after readAndUpdateTokenFromFile has run on the current artifact
ApplyRead ==
  \E res \in {ReadAndUpdateTokenFromFile(
                 Store(googleAuthClient, currentAuthToken, oauth), file)} :
     /\ googleAuthClient' = res.st.googleAuthClient
     /\ currentAuthToken' = res.st.currentAuthToken
     /\ oauth' = res.st.oauth
     /\ installed' = IF res.outcome \in {"json_applied", "plain_applied"}
                     THEN res.applied ELSE installed
     /\ lastRead' = res.outcome
     /\ attempts' = res.attempts

\* watchTokenFile as it would be without its initial read
InitialRead_Skipped ==
  /\ pc = "initial_read"
  /\ pc' = "subscribe"
  /\ UNCHANGED <<posts, fileRead, variant, env, googleAuthClient, currentAuthToken, oauth, file,
                 watch, pending, reqs, installed, lastRead, attempts>>

\* watchTokenFile, first statement: the initial read
InitialRead ==
  /\ pc = "initial_read"
  /\ ApplyRead
  /\ pc' = "subscribe"
  /\ UNCHANGED <<posts, fileRead, variant, env, file, watch, pending, reqs>>

\* watchTokenFile as it would be without the try around fs.watch: the error
\* would reject the startup promise and the process would exit
Subscribe_Fatal ==
  /\ pc = "subscribe"
  /\ watch' = IF file.exists THEN "watching" ELSE "failed"
  /\ pc' = IF file.exists THEN "connect" ELSE "exited"
  /\ UNCHANGED <<posts, fileRead, variant, env, googleAuthClient, currentAuthToken, oauth, file,
                 pending, reqs, installed, lastRead, attempts>>

\* watchTokenFile, the try around fs.watch: it throws when the file is absent
Subscribe ==
  /\ pc = "subscribe"
  /\ watch' = IF file.exists THEN "watching" ELSE "failed"
  /\ pc' = "connect"
  /\ UNCHANGED <<posts, fileRead, variant, env, googleAuthClient, currentAuthToken, oauth, file,
                 pending, reqs, installed, lastRead, attempts>>

\* loadCredentialsAndRunServer, the rest: server.connect(transport)
Connect ==
  /\ pc = "connect"
  /\ pc' = "running"
  /\ UNCHANGED <<posts, fileRead, variant, env, googleAuthClient, currentAuthToken, oauth, file,
                 watch, pending, reqs, installed, lastRead, attempts>>

\* the fs.watch callback, run by the event loop for one queued notification
WatchCallback(evt) ==
  /\ pc = "running"
  /\ pending > 0
  /\ pending' = pending - 1
  /\ IF evt.filename /\ evt.eventType \in {"change", "rename"}
     THEN ApplyRead
     ELSE UNCHANGED <<googleAuthClient, currentAuthToken, oauth, installed, lastRead, attempts>>
  /\ UNCHANGED <<posts, fileRead, variant, env, pc, file, watch, reqs>>

\* another process writes the artifact
WriteArtifact(c) ==
  /\ pc # "exited"
  /\ file' = [exists |-> TRUE, content |-> c,
              readable |-> IF file.exists THEN file.readable ELSE TRUE]
  /\ pending' = IF watch = "watching" /\ pending < MaxPending
                THEN pending + 1 ELSE pending
  /\ UNCHANGED <<posts, fileRead, variant, env, pc, googleAuthClient, currentAuthToken, oauth,
                 watch, reqs, installed, lastRead, attempts>>

\* the heap once request record req of slot r is in place: the temporary
\* client of a handler that has returned is garbage
Collect(heap, r, req) == IF req.pc = "done" THEN [heap EXCEPT ![r] = NoClient] ELSE heap

\* a protocol request arrives and its handler runs up to its first await
StartRequest(r, kind, tok) ==
  /\ pc = "running"
  /\ reqs[r].pc \in {"idle", "done"}
  /\ \E h \in {StartHandler(variant, env, googleAuthClient, oauth, r, kind, tok)} :
       /\ reqs' = [reqs EXCEPT ![r] = h.req]
       /\ oauth' = Collect(h.oauth, r, h.req)
  /\ UNCHANGED <<posts, fileRead, variant, env, pc, googleAuthClient, currentAuthToken, file,
                 watch, pending, installed, lastRead, attempts>>

ListResources(r) == StartRequest(r, "list_resources", None)

ReadResource(r) == StartRequest(r, "read_resource", None)

GdriveSearch(r, tok) == StartRequest(r, "gdrive_search", tok)

GdriveReadFile(r, tok) == StartRequest(r, "gdrive_read_file", tok)

\* the remote API answers the outstanding call of request r
Respond(r, outcome) ==
  /\ reqs[r].pc \in {"await1", "await2"}
  /\ \E req \in {ResumeHandler(variant, oauth, reqs[r], outcome)} :
       /\ reqs' = [reqs EXCEPT ![r] = req]
       /\ oauth' = Collect(oauth, r, req)
  /\ UNCHANGED <<posts, fileRead, variant, env, pc, googleAuthClient, currentAuthToken, file,
                 watch, pending, installed, lastRead, attempts>>

Next ==
  \/ Initialize
  \/ InitialRead
  \/ Subscribe
  \/ Connect
  \/ \E evt \in WatchEvents : WatchCallback(evt)
  \/ \E c \in ArtifactContents : WriteArtifact(c)
  \/ \E r \in Slots : ListResources(r)
  \/ \E r \in Slots : ReadResource(r)
  \/ \E r \in Slots : \E tok \in TokenArgs(r) : GdriveSearch(r, tok)
  \/ \E r \in Slots : \E tok \in TokenArgs(r) : GdriveReadFile(r, tok)
  \/ \E r \in Slots, o \in Outcomes : Respond(r, o)

Spec == Init /\ [][Next]_vars

-----------------------------------------------------------------------------
(* Vocabulary of the claims *)

\* request r has a call outstanding at the remote API
InFlight(r) == reqs[r].pc \in {"await1", "await2"}

\* request r is a tool call that supplied a (nonempty) token
HasOverride(r) == reqs[r].kind \in Tools /\ Truthy(reqs[r].token)

\* the credential a client built for override token t must present
TokenOnly(t) == [access_token |-> t, refresh_token |-> None]

\* every remote call request r has made carried exactly credential c
CallsUse(r, c) ==
  \A i \in DOMAIN reqs[r].calls :
    reqs[r].calls[i] = [auth |-> "client", creds |-> c]

\* the ambient credential: what the global client would present
Ambient == oauth[GlobalId].credentials

-----------------------------------------------------------------------------
\* C1: a tool call that supplies token T, with client_id configured, makes
\* every one of its remote calls with T alone (no refresh token), whatever
\* the ambient credential is.
C1_OverrideTokenUsed ==
  \A r \in Slots :
    (env.clientId /\ HasOverride(r)) => CallsUse(r, TokenOnly(reqs[r].token))

-----------------------------------------------------------------------------
\* C2: no request handler changes the ambient credential: every step that
\* advances a request leaves googleAuthClient, the tracked token and the
\* global client as they were, and the ambient credential changes only in a
\* step of the watcher's update path (the initial read or a watch callback).
C2_HandlersLeaveAmbient ==
  [][ /\ (reqs' # reqs) =>
           /\ googleAuthClient' = googleAuthClient
           /\ currentAuthToken' = currentAuthToken
           /\ oauth'[GlobalId] = oauth[GlobalId]
      /\ (currentAuthToken' # currentAuthToken \/
          oauth'[GlobalId].credentials # oauth[GlobalId].credentials) =>
           (pc = "initial_read" \/ pending' < pending) ]_vars

\* two requests in flight on scoped clients of their own while an ambient
\* credential is installed
C2_Witness ==
  \E r1, r2 \in Slots :
    /\ r1 # r2
    /\ InFlight(r1) /\ HasOverride(r1) /\ oauth[r1].exists
    /\ InFlight(r2) /\ HasOverride(r2) /\ oauth[r2].exists
    /\ Truthy(Ambient.access_token)

-----------------------------------------------------------------------------
\* the credential pairs the artifact texts denote
PairJson == [access_token |-> Some(<<"a1">>), refresh_token |-> Some(<<"r1">>)]

PairPlain == [access_token |-> Some(<<"x1">>), refresh_token |-> None]

UpdatePairs == {PairJson, PairPlain}

\* C3: with an override request and another request in flight together
\* (client_id configured), the override request's remote calls carry its own
\* token only, and a request without a token carries the ambient credential,
\* never a token of another request.
C3_ConcurrentRequestsIsolated ==
  \A r1, r2 \in Slots :
    (r1 # r2 /\ env.clientId /\ InFlight(r1) /\ InFlight(r2)) =>
      /\ HasOverride(r1) => CallsUse(r1, TokenOnly(reqs[r1].token))
      /\ (~Truthy(reqs[r1].token) /\ googleAuthClient # NULL) =>
           \A i \in DOMAIN reqs[r1].calls :
             /\ reqs[r1].calls[i].auth = "client"
             /\ reqs[r1].calls[i].creds \in UpdatePairs

-----------------------------------------------------------------------------
\* C4: the ambient credential is always the pair of exactly one update, the
\* last one applied: the global client's credentials and the tracked token
\* equal the argument pair of the last update, that pair is the pair of one
\* artifact text, and every remote call made on the ambient client carried
\* such a pair (no mix of two updates).
C4_AmbientIsOneUpdate ==
  /\ installed \in UpdatePairs \cup {EmptyCreds}
  /\ Ambient = installed
  /\ currentAuthToken = installed.access_token
  /\ \A r \in Slots : \A i \in DOMAIN reqs[r].calls :
       (reqs[r].auth = GlobalId) => reqs[r].calls[i].creds \in UpdatePairs

\* a file read whose metadata call carried (a1, r1) and whose body call,
\* issued after an update without refresh token, carried (x1, none)
C4_Witness ==
  \E r \in Slots :
    /\ reqs[r].pc = "await2"
    /\ reqs[r].auth = GlobalId
    /\ reqs[r].calls[1].creds = PairJson
    /\ reqs[r].calls[2].creds = PairPlain
    /\ Ambient = PairPlain

-----------------------------------------------------------------------------
\* C5: an ambient file read in flight keeps the credential it started with:
\* its metadata call and its export/download call carry the same credential.
C5_InFlightKeepsCredential ==
  \A r \in Slots :
    (reqs[r].pc = "await2" /\ ~Truthy(reqs[r].token)) =>
      reqs[r].calls[1] = reqs[r].calls[2]

-----------------------------------------------------------------------------
\* C6: with client_id absent, no request reaches the remote API: every
\* request, with or without a token, ends at once in an error about the
\* missing identity, and makes no remote call.
C6_NoIdentityFailsFast ==
  ~env.clientId =>
    \A r \in Slots :
      /\ ~InFlight(r)
      /\ reqs[r].calls = <<>>
      /\ reqs[r].pc = "done" =>
           /\ reqs[r].result # "ok"
           /\ reqs[r].err \in {"identity_missing", "auth_not_configured"}

-----------------------------------------------------------------------------
\* C7: with client_id configured and no credential ever installed, a request
\* without an override token never has a remote call outstanding: it fails
\* for want of a credential, until the first update is applied.
C7_NoCredentialFails ==
  (env.clientId /\ installed = EmptyCreds) =>
    \A r \in Slots :
      ~Truthy(reqs[r].token) => ~InFlight(r)

-----------------------------------------------------------------------------
\* the startup steps of loadCredentialsAndRunServer
Startup == Initialize \/ InitialRead \/ Subscribe \/ Connect

\* C8: an update attempted while no client was initialized fails and changes
\* nothing: in every step taken with googleAuthClient null, the tracked token,
\* the client credentials and the update history stay as they were, no read
\* ends as applied, a read of an artifact that holds a token ends in the
\* not-configured error, an established watch stays established and the
\* process does not exit.
C8_UnconfiguredUpdateChangesNothing ==
  [][ (googleAuthClient = NULL /\ pc # "start") =>
        /\ googleAuthClient' = NULL
        /\ currentAuthToken' = currentAuthToken
        /\ oauth'[GlobalId] = oauth[GlobalId]
        /\ installed' = installed
        /\ lastRead' \notin {"json_applied", "plain_applied"}
        /\ (pc = "initial_read" /\ pc' = "subscribe" /\ file.exists
              /\ file.content \in {JsonAccessRefresh, PlainText})
             => lastRead' = "error"
        /\ (watch = "watching" => watch' = "watching")
        /\ pc' # "exited" ]_vars

\* the watcher has handled its notifications, the artifact holds a token,
\* and the read ended in the not-configured error with nothing tracked
C8_Witness ==
  /\ googleAuthClient = NULL
  /\ pc = "running"
  /\ watch = "watching"
  /\ pending = 0
  /\ file.content = JsonAccessRefresh
  /\ lastRead = "error"
  /\ currentAuthToken = None
  /\ Ambient = EmptyCreds

-----------------------------------------------------------------------------
\* C9: with client_id absent, initialization creates no ambient client and
\* startup is not aborted: the process never exits, googleAuthClient stays
\* null, and from every startup position the next startup step can be taken,
\* through the watcher setup to the connected server.
C9_MissingIdDegraded ==
  ~env.clientId =>
    /\ pc # "exited"
    /\ pc # "start" => (googleAuthClient = NULL /\ ~oauth[GlobalId].exists)
    /\ pc # "running" => ENABLED Startup

\* the server is connected and serving with no ambient client
C9_Witness ==
  /\ ~env.clientId
  /\ pc = "running"
  /\ googleAuthClient = NULL
  /\ \E r \in Slots : reqs[r].pc # "idle"

-----------------------------------------------------------------------------
\* C10: with client_id set and client_secret unset, the ambient client is
\* initialized all the same, a token read from the artifact is installed on
\* it, and ambient requests are made with a client (never without one).
C10_SecretOptional ==
  (env.clientId /\ ~env.clientSecret /\ pc # "start") =>
    /\ googleAuthClient = GlobalId
    /\ oauth[GlobalId].exists
    /\ lastRead # "error"
    /\ \A r \in Slots : \A i \in DOMAIN reqs[r].calls :
         reqs[r].calls[i].auth = "client"

-----------------------------------------------------------------------------
\* C11: when the initial read found the artifact absent or empty and
\* MCP_GDRIVE_OAUTH_TOKEN is set, the ambient credential after startup is
\* that token (with an initialized ambient client); when the initial read
\* applied a token from the artifact, the ambient credential is not the
\* bootstrap token.
C11_BootstrapTokenUsed ==
  (env.bootstrapToken /\ googleAuthClient # NULL /\ pc \in {"subscribe", "connect"}) =>
    /\ lastRead \in {"missing", "empty"} =>
         Ambient = [access_token |-> Some(BootstrapToken), refresh_token |-> None]
    /\ lastRead \in {"json_applied", "plain_applied"} =>
         Ambient.access_token # Some(BootstrapToken)

-----------------------------------------------------------------------------
(* The reader on its own.  SpecParse starts the server in the state it has *)
(* while serving, with one notification queued and the artifact holding    *)
(* any text of ParseInputs, and lets the fs.watch callback run on it.      *)

\* longest artifact text enumerated lexeme by lexeme
MaxLen == 3

Lexemes ==
  {WS, "{", "}", "[", "]", ":", ",", QAccess, "\"a1\"", "123", "null", "true",
   "x1", "y1"}

\* every text of at most MaxLen lexemes
ShortTexts == UNION {[1..n -> Lexemes] : n \in 0..MaxLen}

MemberKeys == {QAccess, QRefresh, QFoo}

MemberValues == {"\"a1\"", "\"a2\"", "\"r1\"", "\"\"", "123", "null"}

\* the texts {k:v} and {k1:v1,k2:v2}
ObjectTexts ==
  {<<"{", k, ":", v, "}">> : k \in MemberKeys, v \in MemberValues} \cup
  {<<"{", m[1], ":", m[2], ",", m[3], ":", m[4], "}">> :
     m \in MemberKeys \X MemberValues \X MemberKeys \X MemberValues}

\* a text as written, or written with whitespace around it and inside it
Padded(t) ==
  {t, <<WS>> \o t \o <<WS, WS>>, <<Head(t), WS>> \o Tail(t)}

ParseInputs == ShortTexts \cup UNION {Padded(t) : t \in ObjectTexts}

\* the state of a server that is running and watching, the ambient client
\* absent or holding the credential of an earlier update, one notification
\* queued
InitParse ==
  /\ variant = "index"
  /\ pc = "running"
  /\ watch = "watching"
  /\ pending = 1
  /\ file \in {NoFile} \cup {[exists |-> TRUE, content |-> c, readable |-> TRUE] : c \in ParseInputs}
  /\ reqs = [r \in Slots |-> IdleReq]
  /\ lastRead = "none"
  /\ attempts = <<>>
  /\ posts = [p \in Posts |-> IdlePost]
  /\ fileRead = IdleRead
  /\ \/ /\ env = [clientId |-> FALSE, clientSecret |-> FALSE, bootstrapToken |-> FALSE]
        /\ googleAuthClient = NULL
        /\ oauth = [i \in ObjIds |-> NoClient]
        /\ installed = EmptyCreds
        /\ currentAuthToken = None
     \/ /\ env = [clientId |-> TRUE, clientSecret |-> TRUE, bootstrapToken |-> FALSE]
        /\ googleAuthClient = GlobalId
        /\ installed \in {EmptyCreds} \cup UpdatePairs
        /\ oauth = [i \in ObjIds |->
                      IF i = GlobalId
                      THEN [NewOAuth2(TRUE) EXCEPT !.credentials = installed]
                      ELSE NoClient]
        /\ currentAuthToken = installed.access_token

NextParse == \E evt \in WatchEvents : WatchCallback(evt)

SpecParse == InitParse /\ [][NextParse]_vars

-----------------------------------------------------------------------------
\* the quoted lexemes that denote a (nonempty) token
TokenLits == {"\"a1\"", "\"a2\"", "\"r1\""}

\* the callback has read the artifact with an initialized ambient client
ReadDone == googleAuthClient # NULL /\ file.exists /\ lastRead # "none"

\* the texts of a JSON object whose members are access_token a and
\* refresh_token r, in either order
WithAccessRefresh(a, r) ==
  Padded(<<"{", QAccess, ":", a, ",", QRefresh, ":", r, "}">>) \cup
  Padded(<<"{", QRefresh, ":", r, ",", QAccess, ":", a, "}">>)

\* the texts of a JSON object with access_token a and no refresh_token
WithAccessOnly(a) ==
  Padded(<<"{", QAccess, ":", a, "}">>) \cup
  Padded(<<"{", QAccess, ":", a, ",", QFoo, ":", "\"r1\"", "}">>) \cup
  Padded(<<"{", QFoo, ":", "\"r1\"", ",", QAccess, ":", a, "}">>)

\* the ambient credential and the tracked token are exactly (a, r)
AmbientIs(a, r) ==
  /\ Ambient = [access_token |-> a, refresh_token |-> r]
  /\ currentAuthToken = a
  /\ installed = Ambient

\* C12: with an initialized ambient client, reading an artifact that is a
\* JSON object with access_token A and refresh_token R (tokens nonempty
\* strings) installs exactly (A, R); with refresh_token omitted it installs
\* (A, no refresh token), whatever credential was installed before.
C12_JsonInstalls ==
  ReadDone =>
    \A a \in TokenLits :
      /\ \A r \in TokenLits :
           file.content \in WithAccessRefresh(a, r) =>
             lastRead = "json_applied" /\ AmbientIs(Some(Unquote[a]), Some(Unquote[r]))
      /\ file.content \in WithAccessOnly(a) =>
           lastRead = "json_applied" /\ AmbientIs(Some(Unquote[a]), None)

\* a JSON token without refresh_token was read over a credential that had one
C12_Witness ==
  /\ ReadDone
  /\ file.content = <<"{", QAccess, ":", "\"a2\"", "}">>
  /\ Ambient = [access_token |-> Some(<<"a2">>), refresh_token |-> None]
  /\ pending = 0

-----------------------------------------------------------------------------
\* the lexemes of a token written as plain text
PlainWords == {"x1", "y1"}

\* a text of words and whitespace with at least one word
IsPlainText(t) ==
  /\ \A i \in DOMAIN t : t[i] \in PlainWords \cup {WS}
  /\ \E i \in DOMAIN t : t[i] \in PlainWords

\* the text from its first word to its last word
Core(t) ==
  LET words == {i \in DOMAIN t : t[i] # WS}
      first == CHOOSE i \in words : \A j \in words : i <= j
      last  == CHOOSE i \in words : \A j \in words : j <= i
  IN SubSeq(t, first, last)

\* C13: with an initialized ambient client, reading an artifact whose
\* content is plain text (words and whitespace, at least one word) installs
\* the credential (content without its surrounding whitespace, no refresh
\* token), whatever credential was installed before.
C13_PlainInstallsTrimmed ==
  (ReadDone /\ IsPlainText(file.content)) =>
    lastRead = "plain_applied" /\ AmbientIs(Some(Core(file.content)), None)

\* a token with whitespace on both sides has been read and installed bare
C13_Witness ==
  /\ ReadDone
  /\ file.content = <<WS, "x1", WS>>
  /\ Ambient = [access_token |-> Some(<<"x1">>), refresh_token |-> None]
  /\ pending = 0

-----------------------------------------------------------------------------
\* a text with nothing in it but whitespace (the empty text included)
AllWhitespace(t) == \A i \in DOMAIN t : t[i] = WS

\* the ambient client, its credentials, the tracked token and the update
\* history are left as they are
StoreUnchanged ==
  /\ googleAuthClient' = googleAuthClient
  /\ currentAuthToken' = currentAuthToken
  /\ oauth' = oauth
  /\ installed' = installed

\* the watcher and the process are left running
WatcherSurvives == watch' = watch /\ pc' = "running"

\* C14: every step taken while the artifact is empty or holds only
\* whitespace leaves the ambient credential, the tracked token and the
\* update history as they were, ends in no error (a read of it ends as
\* "empty"), and leaves the watcher and the process running.
C14_EmptyIgnored ==
  [][ (file.exists /\ AllWhitespace(file.content)) =>
        /\ StoreUnchanged
        /\ lastRead' \in {lastRead, "empty"}
        /\ WatcherSurvives ]_vars

\* a whitespace-only artifact has been read over an installed credential
C14_Witness ==
  /\ file.exists
  /\ file.content = <<WS, WS>>
  /\ lastRead = "empty"
  /\ Ambient = PairJson
  /\ currentAuthToken = PairJson.access_token
  /\ pending = 0

-----------------------------------------------------------------------------
\* a step in which readAndUpdateTokenFromFile may run: the initial read or
\* the handling of a queued notification
ReadStep == (pc = "initial_read" /\ pc' = "subscribe") \/ pending' < pending

\* C15: a read of an artifact holding well-formed JSON without access_token
\* ({"foo": "bar"}) installs nothing: the ambient client, its credentials,
\* the tracked token and the update history stay as they were, the read ends
\* as rejected (never as applied, never in the error path), the watch stays
\* established and the process running, and a notification queued
\* afterwards can still be handled.
C15_InvalidJsonRejected ==
  [][ /\ (ReadStep /\ file.exists /\ file.content = JsonNoAccess) =>
           /\ StoreUnchanged
           /\ lastRead' \in {lastRead, "json_no_access_token"}
           /\ pc = "initial_read" => lastRead' = "json_no_access_token"
           /\ watch' = watch
           /\ pc' # "exited"
      /\ (lastRead = "json_no_access_token" /\ pc = "running"
            /\ watch = "watching" /\ pending > 0) =>
           ENABLED (\E evt \in WatchEvents : WatchCallback(evt)) ]_vars

\* an artifact without access_token has been read by the watcher over an
\* installed credential, which is still in place
C15_Witness ==
  /\ pc = "running"
  /\ watch = "watching"
  /\ file.content = JsonNoAccess
  /\ lastRead = "json_no_access_token"
  /\ pending = 0
  /\ Ambient = PairJson
  /\ currentAuthToken = PairJson.access_token

-----------------------------------------------------------------------------
\* member values that JavaScript takes for false
FalsyValues == {"\"\"", "null"}

\* t, without its whitespace, is the text of a JSON object
IsMappingText(t) == t \in ObjectTexts \cup {<<"{", "}">>}

\* the JSON object t has no access_token, or one that is empty or null (of
\* two members of the same name the later one counts)
LacksAccess(t) ==
  CASE Len(t) = 2 -> TRUE
    [] Len(t) = 5 -> t[2] # QAccess \/ t[4] \in FalsyValues
    [] OTHER -> IF t[6] = QAccess THEN t[8] \in FalsyValues
                ELSE t[2] # QAccess \/ t[4] \in FalsyValues

\* C16: with an initialized ambient client, reading any content that is not
\* empty after trimming installs a credential, except for a JSON object
\* without access_token: a JSON object with access_token is applied as JSON,
\* and everything else (plain text, malformed or truncated JSON, and valid
\* JSON that is no object: a number, a quoted string, true, null, an array)
\* is installed whole as a bare access token with no refresh token.
C16_PermissivePolicy ==
  (ReadDone /\ ~AllWhitespace(file.content)) =>
    LET t == StripWS(file.content) IN
      CASE IsMappingText(t) /\ LacksAccess(t) -> lastRead = "json_no_access_token"
        [] IsMappingText(t) /\ ~LacksAccess(t) -> lastRead = "json_applied"
        [] OTHER -> /\ lastRead = "plain_applied"
                    /\ AmbientIs(Some(Core(file.content)), None)

-----------------------------------------------------------------------------
\* no request has been handled yet
NothingServed == \A r \in Slots : reqs[r] = IdleReq

\* C17: startup runs in the order: client initialization, one read of the
\* artifact, the watch subscription, the server connection.  The initial
\* read applies the content the artifact has at that moment (with an
\* initialized ambient client), and what it installed is the ambient
\* credential in every state before the server is connected: until then no
\* request is handled, no notification is queued before the watch is set
\* up, and none is handled.
C17_StartupOrder ==
  [][ /\ pc = "start" => (googleAuthClient = NULL /\ lastRead = "none" /\ watch = "none")
      /\ pc = "initial_read" => (lastRead = "none" /\ watch = "none")
      /\ pc = "subscribe" => (lastRead # "none" /\ watch = "none")
      /\ pc \in {"connect", "running"} => (lastRead # "none" /\ watch # "none")
      /\ pc # "running" => NothingServed
      /\ watch = "none" => pending = 0
      /\ (pc = "initial_read" /\ pc' = "subscribe" /\ googleAuthClient # NULL
            /\ file.exists) =>
           /\ file.content = JsonAccessRefresh => Ambient' = PairJson
           /\ file.content = PlainText => Ambient' = PairPlain
      /\ (pc \in {"subscribe", "connect"} /\ googleAuthClient # NULL) =>
           /\ lastRead = "json_applied" => AmbientIs(PairJson.access_token, PairJson.refresh_token)
           /\ lastRead = "plain_applied" => AmbientIs(PairPlain.access_token, PairPlain.refresh_token)
           /\ Ambient' = Ambient ]_vars

\* the server is about to connect, the watch is set up, and the token the
\* artifact held at startup is the ambient credential
C17_Witness ==
  /\ pc = "connect"
  /\ watch = "watching"
  /\ googleAuthClient = GlobalId
  /\ lastRead = "json_applied"
  /\ Ambient = PairJson
  /\ NothingServed

-----------------------------------------------------------------------------
\* C18: with GOOGLE_CLIENT_ID configured and the watch established, the
\* handling of the last queued notification leaves the ambient credential
\* equal to the parse of the content the artifact then holds, when that is
\* a valid credential; and an ambient request started while the server runs
\* makes its first call with the ambient credential of that moment.
C18_NotifiedWriteApplied ==
  [][ /\ (env.clientId /\ pc = "running" /\ watch = "watching" /\ file.exists
            /\ pending' < pending /\ pending' = 0) =>
           /\ file.content = JsonAccessRefresh =>
                (Ambient' = PairJson /\ lastRead' = "json_applied")
           /\ file.content = PlainText =>
                (Ambient' = PairPlain /\ lastRead' = "plain_applied")
      /\ \A r \in Slots :
           (env.clientId /\ reqs[r].pc \in {"idle", "done"}
              /\ reqs'[r].pc = "await1" /\ ~Truthy(reqs'[r].token)) =>
             reqs'[r].calls[1].creds = Ambient ]_vars

-----------------------------------------------------------------------------
-----------------------------------------------------------------------------
\* C20: subscribing while the artifact does not exist fails without ending
\* startup: the step records the failure and moves on to connecting the
\* server.  Once the watch has failed it stays failed (no retry: startup
\* never returns to subscribing), the process does not exit, the server can
\* connect, no notification is ever queued, and the ambient credential, the
\* tracked token and the update history never change again.
C20_WatchFailureNotFatal ==
  [][ /\ (pc = "subscribe" /\ pc' # pc /\ ~file.exists) =>
           (watch' = "failed" /\ pc' = "connect")
      /\ watch = "failed" =>
           /\ pc \in {"connect", "running"}
           /\ pc' \in {"connect", "running"}
           /\ pc = "connect" => ENABLED Connect
           /\ watch' = "failed"
           /\ pending = 0 /\ pending' = 0
           /\ Ambient' = Ambient
           /\ currentAuthToken' = currentAuthToken
           /\ installed' = installed
           /\ lastRead' = lastRead ]_vars

\* the watch failed at startup, the server is running with an ambient
\* client, and a token written to the artifact since has not been applied
C20_Witness ==
  /\ watch = "failed"
  /\ pc = "running"
  /\ googleAuthClient = GlobalId
  /\ file.exists
  /\ file.content = JsonAccessRefresh
  /\ lastRead = "missing"
  /\ Ambient = EmptyCreds
  /\ \E r \in Slots : reqs[r].pc = "done" /\ reqs[r].err = "no_credential"

-----------------------------------------------------------------------------
\* the errors of a request that found no identity or no credential
AvailabilityErrors == {"identity_missing", "auth_not_configured", "no_credential"}

\* C21: a request that ends for want of an identity or a credential ends
\* alone: in that step the process keeps running, the watch, the queued
\* notifications, the ambient client and every other request are left as
\* they were.  And once a credential is installed on the ambient client,
\* every request started afterwards goes out to the remote API, an ambient
\* one carrying exactly the installed credential, and a request the remote
\* API answers well ends well.
C21_FailureIsPerRequest ==
  [][ \A r \in Slots :
        /\ (reqs'[r] # reqs[r] /\ reqs'[r].err \in AvailabilityErrors) =>
             /\ pc' = "running"
             /\ watch' = watch /\ pending' = pending
             /\ googleAuthClient' = googleAuthClient
             /\ oauth'[GlobalId] = oauth[GlobalId]
             /\ currentAuthToken' = currentAuthToken
             /\ \A q \in Slots \ {r} : reqs'[q] = reqs[q]
        /\ (reqs[r].pc \in {"idle", "done"} /\ reqs'[r] # reqs[r]
              /\ googleAuthClient # NULL /\ Ambient \in UpdatePairs) =>
             /\ reqs'[r].pc = "await1"
             /\ reqs'[r].auth = GlobalId =>
                  reqs'[r].calls = <<[auth |-> "client", creds |-> Ambient]>>
        /\ (InFlight(r) /\ reqs'[r].pc = "done" /\ Ambient \in UpdatePairs) =>
             (reqs'[r].result = "ok" \/ reqs'[r].err = "remote") ]_vars

\* in the built revision, one request has failed for want of a credential,
\* a credential has been installed by the watcher since, and a later request
\* has ended well
C21_Witness ==
  /\ variant = "index"
  /\ pc = "running"
  /\ watch = "watching"
  /\ reqs[1].pc = "done" /\ reqs[1].err = "no_credential"
  /\ reqs[2].pc = "done" /\ reqs[2].result = "ok"
  /\ Ambient = PairJson

-----------------------------------------------------------------------------
\* C23: a request whose call the remote API rejects ends at once as a failed
\* operation carrying the remote error (for the tools of the built revision
\* a result with isError set), and no call is issued again: a request makes
\* one call, a file read two (metadata, then content), and every step of a
\* request in flight either ends it or is the one step from the first call
\* to the second.  Ending with the remote error leaves the ambient client,
\* its credentials and the tracked token as they were and the process
\* running.
C23_RemoteRejectionSurfaced ==
  [][ \A r \in Slots :
        /\ (InFlight(r) /\ reqs'[r] # reqs[r]) =>
             \/ reqs'[r].pc = "done"
             \/ /\ reqs[r].pc = "await1" /\ reqs'[r].pc = "await2"
                /\ reqs[r].kind \in Reads
                /\ Len(reqs'[r].calls) = 2
                /\ reqs'[r].calls[1] = reqs[r].calls[1]
        /\ reqs[r].pc = "await1" => Len(reqs[r].calls) = 1
        /\ (InFlight(r) /\ reqs'[r].err = "remote") =>
             /\ reqs'[r].pc = "done"
             /\ reqs'[r].result = ErrorSurface(variant, reqs[r].kind)
             /\ reqs'[r].result \in {"isError", "thrown"}
             /\ (variant = "index" /\ reqs[r].kind \in Tools) =>
                  reqs'[r].result = "isError"
             /\ googleAuthClient' = googleAuthClient
             /\ oauth'[GlobalId] = oauth[GlobalId]
             /\ currentAuthToken' = currentAuthToken
             /\ installed' = installed
             /\ pc' = "running" ]_vars

\* in the built revision one request has ended with the remote error, the
\* credential is still installed, and another request is in flight with it
C23_Witness ==
  /\ variant = "index"
  /\ pc = "running"
  /\ reqs[1].pc = "done" /\ reqs[1].err = "remote" /\ reqs[1].result = "isError"
  /\ reqs[2].pc = "await1" /\ reqs[2].calls[1].creds = PairJson
  /\ Ambient = PairJson

-----------------------------------------------------------------------------
-----------------------------------------------------------------------------
\* text t is the JSON text of an object with a usable access_token
IsStructuredCredential(t) ==
  LET d == JSONParse(t) IN
    d.ok /\ d.val.kind = "object" /\ Truthy(d.val.props.access_token)

\* C27: a failure of the update for a structured credential is not handled
\* as a parse failure: no read passes the raw JSON text of an object with
\* access_token to the update as a bare access token, and no such text is
\* ever the ambient or the tracked access token.
C27_UpdateErrorNotParseError ==
  /\ \A i \in DOMAIN attempts :
       attempts[i].has => ~IsStructuredCredential(attempts[i].v)
  /\ Ambient.access_token.has => ~IsStructuredCredential(Ambient.access_token.v)
  /\ currentAuthToken.has => ~IsStructuredCredential(currentAuthToken.v)

-----------------------------------------------------------------------------
\* C30: a tool call that supplies a token argument, the empty string
\* included, never has a remote call outstanding on the ambient client.
C30_SuppliedTokenNeverAmbient ==
  \A r \in Slots :
    (reqs[r].kind \in Tools /\ reqs[r].token.has /\ InFlight(r)) =>
      reqs[r].auth # GlobalId

-----------------------------------------------------------------------------
(* Loss of the artifact.  The file can be deleted or made unreadable by    *)
(* another process while the server runs.                                  *)

\* the artifact is unlinked.  The watcher is told ('rename'); whether the
\* subscription then follows a file created later at the same path depends
\* on the platform, so both outcomes are kept.
DeleteArtifact(kept) ==
  /\ pc # "exited"
  /\ file.exists
  /\ file' = NoFile
  /\ pending' = IF watch = "watching" /\ pending < MaxPending
                THEN pending + 1 ELSE pending
  /\ watch' = IF watch = "watching" /\ ~kept THEN "lost" ELSE watch
  /\ UNCHANGED <<posts, fileRead, variant, env, pc, googleAuthClient,
                 currentAuthToken, oauth, reqs, installed, lastRead, attempts>>

\* the permissions of the artifact are changed, taking or giving read access
SetReadable(b) ==
  /\ pc # "exited"
  /\ file.exists
  /\ file.readable # b
  /\ file' = [file EXCEPT !.readable = b]
  /\ pending' = IF watch = "watching" /\ pending < MaxPending
                THEN pending + 1 ELSE pending
  /\ UNCHANGED <<posts, fileRead, variant, env, pc, googleAuthClient,
                 currentAuthToken, oauth, watch, reqs, installed, lastRead,
                 attempts>>

\* the built revision started with identity and secret configured
InitLoss ==
  /\ Init
  /\ variant = "index"
  /\ env = [clientId |-> TRUE, clientSecret |-> TRUE, bootstrapToken |-> FALSE]

NextLoss ==
  \/ Next
  \/ \E kept \in BOOLEAN : DeleteArtifact(kept)
  \/ \E b \in BOOLEAN : SetReadable(b)

SpecLoss == InitLoss /\ [][NextLoss]_vars

-----------------------------------------------------------------------------
(* The ingestion endpoint (auth-handler.cjs), a process of its own that    *)
(* writes the artifact the server watches.  A request body is a sequence   *)
(* of bytes, grouped into lexemes; it arrives in chunks.                   *)

\* a string literal holding one two-byte character (bytes c3 a9), and what
\* is left of it on either side when a chunk boundary falls between the bytes
QMulti == "\"<c3a9>\""

LeadHalf == "\"<c3>"

TailHalf == "<a9>\""

\* the same literal with each lone byte decoded as U+FFFD
QReplaced == "\"<fffd><fffd>\""

JsonMulti == <<"{", QAccess, ":", QMulti, "}">>

\* chunk.toString(): a chunk is decoded on its own, so a byte of a
\* character cut by the chunk boundary becomes U+FFFD
ChunkToString(chunk) ==
  [i \in DOMAIN chunk |->
     CASE chunk[i] = LeadHalf -> "\"<fffd>"
       [] chunk[i] = TailHalf -> "<fffd>\""
       [] OTHER -> chunk[i]]

\* the characters of a string, grouped into lexemes again
RECURSIVE Relex(_)
Relex(str) ==
  IF Len(str) < 2 THEN str
  ELSE IF str[1] = "\"<fffd>" /\ str[2] = "<fffd>\""
       THEN <<QReplaced>> \o Relex(SubSeq(str, 3, Len(str)))
       ELSE <<Head(str)>> \o Relex(Tail(str))

\* body += chunk.toString(), over all the chunks
RECURSIVE Accumulate(_)
Accumulate(chunks) ==
  IF chunks = <<>> THEN <<>>
  ELSE ChunkToString(Head(chunks)) \o Accumulate(Tail(chunks))

\* a request body as sent (sent) and as delivered to the 'data' listener
Delivery(b, chunks) == [sent |-> b, chunks |-> chunks]

Deliveries ==
  {Delivery(b, <<b>>) :
     b \in {JsonAccessRefresh, JsonNoAccess, JsonMulti, <<"123">>, <<"x1">>}} \cup
  {Delivery(JsonAccessRefresh,
            <<SubSeq(JsonAccessRefresh, 1, 4), SubSeq(JsonAccessRefresh, 5, 9)>>),
   Delivery(JsonMulti,
            <<<<"{", QAccess, ":", LeadHalf>>, <<TailHalf, "}">>>>)}

Methods == {"POST", "GET"}

Urls == {"/auth", "/"}

\* the requests sent to the endpoint: POST /auth with each delivery, and
\* requests with another method or path, whose body is never read
Requests ==
  {[method |-> "POST", url |-> "/auth", d |-> d] : d \in Deliveries} \cup
  {[method |-> mu[1], url |-> mu[2], d |-> Delivery(<<>>, <<>>)] :
     mu \in (Methods \X Urls) \ {<<"POST", "/auth">>}}

\* fs.writeFile writes at offset 0 of the file it opened
Overwrite(old, data) == data \o SubSeq(old, Len(data) + 1, Len(old))

\* the file system tells the watcher of a modification
Notify ==
  pending' = IF watch = "watching" /\ pending < MaxPending
             THEN pending + 1 ELSE pending

\* the request handler up to its call of fs.writeFile: any request but
\* POST /auth is answered 404 without reading its body; the body of a
\* POST /auth is accumulated and parsed, and answered 400 when it is not JSON
Receive(p, method, url, d) ==
  /\ posts[p].pc \in {"idle", "done"}
  /\ \E body \in {Relex(Accumulate(d.chunks))} :
       posts' = [posts EXCEPT ![p] =
         IF ~(method = "POST" /\ url = "/auth")
         THEN [pc |-> "done", method |-> method, url |-> url, sent |-> <<>>,
               body |-> <<>>, status |-> 404]
         ELSE IF ~JSONParse(body).ok
         THEN [pc |-> "done", method |-> method, url |-> url, sent |-> d.sent,
               body |-> body, status |-> 400]
         ELSE [pc |-> "open", method |-> method, url |-> url, sent |-> d.sent,
               body |-> body, status |-> 0]]
  /\ UNCHANGED <<fileRead, variant, env, pc, googleAuthClient, currentAuthToken,
                 oauth, file, watch, pending, reqs, installed, lastRead,
                 attempts>>

\* fs.writeFile, first step: the file is opened for writing and truncated;
\* when that fails the callback gets the error and answers 500
OpenTruncate(p, ok) ==
  /\ posts[p].pc = "open"
  /\ IF ok
     THEN /\ file' = [exists |-> TRUE, content |-> <<>>,
                      readable |-> IF file.exists THEN file.readable ELSE TRUE]
          /\ Notify
          /\ posts' = [posts EXCEPT ![p].pc = "write"]
     ELSE /\ posts' = [posts EXCEPT ![p].pc = "done", ![p].status = 500]
          /\ UNCHANGED <<file, pending>>
  /\ UNCHANGED <<fileRead, variant, env, pc, googleAuthClient, currentAuthToken,
                 oauth, watch, reqs, installed, lastRead, attempts>>

\* fs.writeFile, second step: the body is written from the start of the
\* file, and the callback answers 200, or 500 when the write fails
WriteBody(p, ok) ==
  /\ posts[p].pc = "write"
  /\ IF ok
     THEN /\ file' = [file EXCEPT !.content = Overwrite(@, posts[p].body)]
          /\ Notify
          /\ posts' = [posts EXCEPT ![p].pc = "done", ![p].status = 200]
     ELSE /\ posts' = [posts EXCEPT ![p].pc = "done", ![p].status = 500]
          /\ UNCHANGED <<file, pending>>
  /\ UNCHANGED <<fileRead, variant, env, pc, googleAuthClient, currentAuthToken,
                 oauth, watch, reqs, installed, lastRead, attempts>>

\* the server of src/index.ts running beside the endpoint, as entrypoint.sh
\* starts them: the artifact was created empty, the initial read found it
\* empty, the watch is established
InitAuth ==
  /\ variant = "index"
  /\ env = [clientId |-> TRUE, clientSecret |-> TRUE, bootstrapToken |-> FALSE]
  /\ pc = "running"
  /\ googleAuthClient = GlobalId
  /\ currentAuthToken = None
  /\ oauth = [i \in ObjIds |-> IF i = GlobalId THEN NewOAuth2(TRUE) ELSE NoClient]
  /\ file = [exists |-> TRUE, content |-> <<>>, readable |-> TRUE]
  /\ watch = "watching"
  /\ pending = 0
  /\ reqs = [r \in Slots |-> IdleReq]
  /\ installed = EmptyCreds
  /\ lastRead = "empty"
  /\ attempts = <<>>
  /\ posts = [p \in Posts |-> IdlePost]
  /\ fileRead = IdleRead

NextAuth ==
  \/ \E p \in Posts, rq \in Requests : Receive(p, rq.method, rq.url, rq.d)
  \/ \E p \in Posts, ok \in BOOLEAN : OpenTruncate(p, ok)
  \/ \E p \in Posts, ok \in BOOLEAN : WriteBody(p, ok)
  \/ \E evt \in WatchEvents : WatchCallback(evt)

SpecAuth == InitAuth /\ [][NextAuth]_vars

-----------------------------------------------------------------------------
\* the request bodies that are JSON texts
ValidJsonBodies == {JsonAccessRefresh, JsonNoAccess, JsonMulti, <<"123">>}

\* the request in slot p is a POST /auth
IsPostAuth(q) == q.method = "POST" /\ q.url = "/auth"

\* C22: the endpoint answers 404 exactly to requests other than POST /auth
\* and 400 exactly to POST /auth with a body that is not JSON, both without
\* touching the artifact; 200 and 500 only to POST /auth with a JSON body;
\* 500 only from a failed step of the write; and the step that answers 200
\* has put the body, byte for byte as it was sent, at the start of the
\* artifact, where it is the whole artifact unless another write overlapped.
C22_EndpointAnswers ==
  [][ \A p \in Posts :
        LET a == posts[p]
            b == posts'[p]
        IN
          /\ b.status = 404 <=> (b.pc = "done" /\ ~IsPostAuth(b))
          /\ b.status = 400 <=>
               (b.pc = "done" /\ IsPostAuth(b) /\ b.sent \notin ValidJsonBodies)
          /\ b.status \in {200, 500} =>
               (b.pc = "done" /\ IsPostAuth(b) /\ b.sent \in ValidJsonBodies)
          /\ (a # b /\ b.status \in {400, 404}) =>
               (file' = file /\ pending' = pending)
          /\ (a.status # 500 /\ b.status = 500) =>
               (a.pc \in {"open", "write"} /\ file' = file)
          /\ (a.status # 200 /\ b.status = 200) =>
               /\ a.pc = "write"
               /\ Len(file'.content) >= Len(b.sent)
               /\ SubSeq(file'.content, 1, Len(b.sent)) = b.sent
               /\ file.content = <<>> => file'.content = b.sent ]_vars

-----------------------------------------------------------------------------
\* the access tokens of the bodies the endpoint writes in full
BodyTokens == {<<"a1">>, <<"<c3a9>">>, <<"<fffd><fffd>">>}

\* C28: a read of the artifact while it is being rewritten installs no
\* partial credential: a read of the empty intermediate content changes
\* nothing, and the ambient access token is always absent or the token of
\* one body written in full, never a piece or a mixture of bodies.
C28_NoPartialCredential ==
  [][ /\ (ReadStep /\ file.content = <<>>) => StoreUnchanged
      /\ Ambient'.access_token.has => Ambient'.access_token.v \in BodyTokens
      /\ currentAuthToken'.has => currentAuthToken'.v \in BodyTokens ]_vars

-----------------------------------------------------------------------------
\* C29: what the endpoint accepts, the watcher installs: while the artifact
\* holds the body of a request answered 200, no read of the watcher has
\* ended in rejecting the content as JSON without access_token (which
\* leaves the previous credential in force).
C29_AcceptedBodyInstalled ==
  \A p \in Posts :
    (posts[p].status = 200 /\ file.content = posts[p].body) =>
      lastRead # "json_no_access_token"

-----------------------------------------------------------------------------
(* readFileContent: from the MIME type in the file's metadata to the form  *)
(* of the content returned.  A MIME type is a sequence of pieces of text.  *)

\* longest MIME type enumerated, in pieces
MaxMime == 3

MimePieces ==
  {"application/", "text/", "image/", "vnd.google-apps", ".document",
   ".spreadsheet", ".presentation", ".drawing", ".folder", "json", "plain",
   "png"}

\* what file.data.mimeType can be: undefined, or a string
MimeTypes ==
  {None} \cup {Some(t) : t \in UNION {[1..n -> MimePieces] : n \in 0..MaxMime}}

\* String.prototype.startsWith
StartsWith(str, prefix) ==
  Len(str) >= Len(prefix) /\ SubSeq(str, 1, Len(prefix)) = prefix

GoogleApps == <<"application/", "vnd.google-apps">>

\* the switch over file.data.mimeType as it would be if documents fell
\* through to the default
ExportMimeType_DocAsDefault(t) ==
  CASE t = GoogleApps \o <<".spreadsheet">>  -> <<"text/", "csv">>
    [] t = GoogleApps \o <<".presentation">> -> <<"text/", "plain">>
    [] t = GoogleApps \o <<".drawing">>      -> <<"image/", "png">>
    [] OTHER                                 -> <<"text/", "plain">>

\* the switch over file.data.mimeType
ExportMimeType(t) ==
  CASE t = GoogleApps \o <<".document">>     -> <<"text/", "markdown">>
    [] t = GoogleApps \o <<".spreadsheet">>  -> <<"text/", "csv">>
    [] t = GoogleApps \o <<".presentation">> -> <<"text/", "plain">>
    [] t = GoogleApps \o <<".drawing">>      -> <<"image/", "png">>
    [] OTHER                                 -> <<"text/", "plain">>

\* readFileContent after the metadata call has answered with MIME type m:
\* the call it makes (export or download), and the MIME type and encoding of
\* what it returns.  An export is returned as the API sent it ("text"); the
\* revision of part_002 returns an exported image as Base64.
ReadFileContent(v, m) ==
  IF m.has /\ StartsWith(m.v, GoogleApps)
  THEN LET exportMimeType == ExportMimeType(m.v) IN
         [op |-> "export", mimeType |-> exportMimeType,
          encoding |-> IF v = "part_002" /\ StartsWith(exportMimeType, <<"image/">>)
                       THEN "base64" ELSE "text"]
  ELSE LET mimeType == IF Truthy(m) THEN m.v ELSE <<"application/", "octet-stream">> IN
         [op |-> "download", mimeType |-> mimeType,
          encoding |-> IF StartsWith(mimeType, <<"text/">>) \/
                          mimeType = <<"application/", "json">>
                       THEN "utf-8" ELSE "base64"]

\* the metadata call of readFileContent answers with MIME type m
GetMetadata(m) ==
  /\ pc = "running"
  /\ fileRead.pc = "idle"
  /\ fileRead' = [fileRead EXCEPT !.pc = "meta", !.mimeType = m]
  /\ UNCHANGED <<posts, variant, env, pc, googleAuthClient, currentAuthToken,
                 oauth, file, watch, pending, reqs, installed, lastRead,
                 attempts>>

\* the export or download call answers and readFileContent returns
FetchContent ==
  /\ fileRead.pc = "meta"
  /\ fileRead' = [fileRead EXCEPT !.pc = "done",
                                  !.out = ReadFileContent(variant, fileRead.mimeType)]
  /\ UNCHANGED <<posts, variant, env, pc, googleAuthClient, currentAuthToken,
                 oauth, file, watch, pending, reqs, installed, lastRead,
                 attempts>>

\* the handler hands the content back
ReturnContent ==
  /\ fileRead.pc = "done"
  /\ fileRead' = IdleRead
  /\ UNCHANGED <<posts, variant, env, pc, googleAuthClient, currentAuthToken,
                 oauth, file, watch, pending, reqs, installed, lastRead,
                 attempts>>

\* a server of any revision, running with a credential installed
InitMime ==
  /\ variant \in Variants
  /\ env = [clientId |-> TRUE, clientSecret |-> TRUE, bootstrapToken |-> FALSE]
  /\ pc = "running"
  /\ googleAuthClient = GlobalId
  /\ currentAuthToken = PairJson.access_token
  /\ oauth = [i \in ObjIds |->
                IF i = GlobalId
                THEN [InitializeGoogleAuthClient(variant, env).client
                        EXCEPT !.credentials = PairJson]
                ELSE NoClient]
  /\ file = [exists |-> TRUE, content |-> JsonAccessRefresh, readable |-> TRUE]
  /\ watch = "watching"
  /\ pending = 0
  /\ reqs = [r \in Slots |-> IdleReq]
  /\ installed = PairJson
  /\ lastRead = "json_applied"
  /\ attempts = <<PairJson.access_token>>
  /\ posts = [p \in Posts |-> IdlePost]
  /\ fileRead = IdleRead

NextMime ==
  \/ \E m \in MimeTypes : GetMetadata(m)
  \/ FetchContent
  \/ ReturnContent

SpecMime == InitMime /\ [][NextMime]_vars

\* MIME type t is a Google Workspace type
IsGoogleType(t) ==
  Len(t) >= 2 /\ t[1] = "application/" /\ t[2] = "vnd.google-apps"

\* content of MIME type t is text
IsTextType(t) == (t # <<>> /\ t[1] = "text/") \/ t = <<"application/", "json">>

=============================================================================
